---- MODULE Spec2Model ----
(***************************************************************************)
(* The to-do page of src/app/page.tsx as a state machine.                  *)
(*                                                                         *)
(* Strings are sequences of one-character strings, so that trim,           *)
(* toLowerCase and includes are computed as JavaScript computes them.      *)
(* An optional value (Todo | null, string | null) is the empty sequence    *)
(* for null and a one-element sequence otherwise.  A Todo is a record; its  *)
(* optional description is a field the record may lack.                    *)
(***************************************************************************)
EXTENDS Naturals, Sequences, FiniteSets, TLC

VARIABLES
    todos,        \* useState<Todo[]>([])            (line 16)
    search,       \* useState('')                    (line 17)
    filter,       \* useState('todos')               (line 18)
    editing,      \* useState<Todo | null>(null)     (line 19)
    title,        \* useState('')                    (line 20)
    description,  \* useState('')                    (line 21)
    modalOpen,    \* useState(false)                 (line 22)
    storage,      \* localStorage slot STORAGE_KEY
    now,          \* the reading Date.now() returns
    pc,           \* where the component is: mount effects, idle, crashed
    pending,      \* state update queued by the load effect, not yet rendered
    events,       \* how many user events (handlers, reloads) have run
    lastOp,       \* history: the handler or effect that made the last step
    restartFrom,  \* history: the collection held when the page was reloaded
    loadedRaw     \* history: what the load effect of this mount read

vars == <<todos, search, filter, editing, title, description, modalOpen,
          storage, now, pc, pending, events, lastOp, restartFrom, loadedRaw>>

-----------------------------------------------------------------------------
(* Bounds of the model *)

\* a run holds at most this many user events (handler calls and reloads)
MaxEvents == 7
\* the clock advances at most this many milliseconds past its first reading
MaxTicks == 1
\* the view-model is also checked on every collection of up to this many tasks
MaxViewLen == 2
\* timestamp of the tasks a previous session left in storage
StoredAt == 8

-----------------------------------------------------------------------------
(* Optional values *)

Null == <<>>
Some(x) == <<x>>

-----------------------------------------------------------------------------
(* Strings *)

Space == " "

\* String.prototype.trim: whitespace is removed from both ends
RECURSIVE trimStart(_)
trimStart(s) ==
    IF s # <<>> /\ Head(s) = Space THEN trimStart(Tail(s)) ELSE s

RECURSIVE trimEnd(_)
trimEnd(s) ==
    IF s # <<>> /\ s[Len(s)] = Space THEN trimEnd(SubSeq(s, 1, Len(s) - 1)) ELSE s

\* a variant that validates and stores the text as typed
trim_none(s) == s

trim(s) == trimEnd(trimStart(s))

lowerChar(c) ==
    CASE c = "A" -> "a"
      [] c = "B" -> "b"
      [] OTHER   -> c

\* String.prototype.toLowerCase
toLowerCase(s) == [i \in 1..Len(s) |-> lowerChar(s[i])]

\* String.prototype.includes
includes(s, sub) ==
    \E i \in 0..(Len(s) - Len(sub)) : SubSeq(s, i + 1, i + Len(sub)) = sub

digit(d) ==
    CASE d = 0 -> "0" [] d = 1 -> "1" [] d = 2 -> "2" [] d = 3 -> "3"
      [] d = 4 -> "4" [] d = 5 -> "5" [] d = 6 -> "6" [] d = 7 -> "7"
      [] d = 8 -> "8" [] d = 9 -> "9"

\* String(n) for a non-negative integer: its decimal digits
RECURSIVE String(_)
String(n) ==
    IF n < 10 THEN <<digit(n)>> ELSE String(n \div 10) \o <<digit(n % 10)>>

-----------------------------------------------------------------------------
(* JSON text: a sequence of tokens *)

Tok(k, key, s, n) == [k |-> k, key |-> key, s |-> s, n |-> n]
LBracket == Tok("[", "", <<>>, 0)
RBracket == Tok("]", "", <<>>, 0)
LBrace == Tok("{", "", <<>>, 0)
RBrace == Tok("}", "", <<>>, 0)
KeyTok(name) == Tok("key", name, <<>>, 0)
StrTok(s) == Tok("str", "", s, 0)
NumTok(n) == Tok("num", "", <<>>, n)
BoolTok(b) == Tok(IF b THEN "true" ELSE "false", "", <<>>, 0)

IsScalarTok(t) == t.k \in {"str", "num", "true", "false"}

\* the value a scalar token denotes
scalarValue(t) ==
    CASE t.k = "str"   -> t.s
      [] t.k = "num"   -> t.n
      [] t.k = "true"  -> TRUE
      [] t.k = "false" -> FALSE

\* JSON.stringify of one Todo: a key whose value is undefined is left out
stringifyTodo(t) ==
    <<LBrace, KeyTok("id"), StrTok(t.id), KeyTok("title"), StrTok(t.title)>>
    \o (IF "description" \in DOMAIN t
          THEN <<KeyTok("description"), StrTok(t.description)>>
          ELSE <<>>)
    \o <<KeyTok("completed"), BoolTok(t.completed),
         KeyTok("createdAt"), NumTok(t.createdAt),
         KeyTok("updatedAt"), NumTok(t.updatedAt), RBrace>>

RECURSIVE stringifyItems(_)
stringifyItems(s) ==
    IF s = <<>> THEN <<>> ELSE stringifyTodo(Head(s)) \o stringifyItems(Tail(s))

\* JSON.stringify(todos)
JSONstringify(s) == <<LBracket>> \o stringifyItems(s) \o <<RBracket>>

\* One object, read from the token after its "{": key/value pairs up to "}".
\* The result is the object and the index of the token after it; ok is FALSE
\* where JSON.parse throws a SyntaxError.
RECURSIVE parseObject(_, _, _)
parseObject(text, i, obj) ==
    IF i > Len(text) THEN [ok |-> FALSE, next |-> i, obj |-> obj]
    ELSE IF text[i] = RBrace THEN [ok |-> TRUE, next |-> i + 1, obj |-> obj]
    ELSE IF text[i].k = "key" /\ i + 1 <= Len(text) /\ IsScalarTok(text[i + 1])
         THEN parseObject(text, i + 2,
                          (text[i].key :> scalarValue(text[i + 1])) @@ obj)
    ELSE [ok |-> FALSE, next |-> i, obj |-> obj]

\* The elements of an array of objects, read from the token after its "[".
RECURSIVE parseItems(_, _, _)
parseItems(text, i, items) ==
    IF i > Len(text) THEN [ok |-> FALSE, items |-> items]
    ELSE IF text[i] = RBracket THEN [ok |-> i = Len(text), items |-> items]
    ELSE IF text[i] = LBrace
         THEN LET o == parseObject(text, i + 1, <<>>)
              IN  IF o.ok THEN parseItems(text, o.next, Append(items, o.obj))
                  ELSE [ok |-> FALSE, items |-> items]
    ELSE [ok |-> FALSE, items |-> items]

\* JSON.parse(raw): ok is FALSE where it throws; otherwise the value is an
\* array (of the objects in items) or a scalar.  The texts read are those a
\* storage slot of this page is taken to hold: arrays of flat objects,
\* lone scalars, and text that is not JSON.
JSONparse(text) ==
    IF text = <<>> THEN [ok |-> FALSE, isArray |-> FALSE, items |-> <<>>]
    ELSE IF Len(text) = 1 /\ IsScalarTok(text[1])
         THEN [ok |-> TRUE, isArray |-> FALSE, items |-> <<>>]
    ELSE IF text[1] = LBracket
         THEN LET r == parseItems(text, 2, <<>>)
              IN  [ok |-> r.ok, isArray |-> r.ok, items |-> IF r.ok THEN r.items ELSE <<>>]
    ELSE [ok |-> FALSE, isArray |-> FALSE, items |-> <<>>]

-----------------------------------------------------------------------------
(* localStorage *)

\* localStorage.getItem(STORAGE_KEY): the text, or null when the key is absent
getItem(st) == st

\* localStorage.setItem(STORAGE_KEY, text), in the runs considered here: the
\* write succeeds (a throwing setItem is caught at line 36 and leaves the slot
\* as it was)
setItem(st, text) == Some(text)

\* the persist effect's body: the slot receives JSON.stringify(todos)
persist(st, s) == setItem(st, JSONstringify(s))

-----------------------------------------------------------------------------
(* What the user can type, and what a previous session can have stored *)

TitleInputs == { <<" ">>, <<"a", " ">>, <<"B">> }
DescriptionInputs == { <<>>, <<" ", "b">> }
SearchInputs == { <<>>, <<" ", "b">> }
ViewSearchInputs == SearchInputs \cup { <<" ">>, <<"A">>, <<"a", " ", "b">> }
Filters == {"todos", "completed"}

\* a task of an earlier session, with and without the optional description
StoredTodo ==
    [id |-> String(StoredAt), title |-> <<"a">>, description |-> <<"b">>,
     completed |-> FALSE, createdAt |-> StoredAt, updatedAt |-> StoredAt]
StoredBare ==
    [id |-> String(StoredAt), title |-> <<"B">>,
     completed |-> TRUE, createdAt |-> StoredAt, updatedAt |-> StoredAt]

\* the slot at first load: absent, the empty string, text that is not JSON,
\* JSON that is not an array, and arrays written by the page
InitialStorage ==
    { Null,
      Some(<<>>),
      Some(<<LBracket, LBrace>>),
      Some(<<NumTok(7)>>),
      Some(JSONstringify(<<>>)),
      Some(JSONstringify(<<StoredTodo>>)),
      Some(JSONstringify(<<StoredBare>>)) }

-----------------------------------------------------------------------------
(* The component's pure parts *)

\* t.description || ''
descriptionOf(t) == IF "description" \in DOMAIN t THEN t.description ELSE <<>>

\* the Todo built by create (lines 56-64)
newTodo(ttl, desc, t) ==
    [id |-> String(t), title |-> trim(ttl), description |-> trim(desc),
     completed |-> FALSE, createdAt |-> t, updatedAt |-> t]

\* the Todo built by update (lines 75-80): the snapshot held in editing with
\* title, description and updatedAt replaced
updatedTodo(e, ttl, desc, t) ==
    [k \in DOMAIN e \cup {"title", "description", "updatedAt"} |->
        CASE k = "title"       -> trim(ttl)
          [] k = "description" -> trim(desc)
          [] k = "updatedAt"   -> t
          [] OTHER             -> e[k]]

\* a variant that appends the new task instead of prepending it
createMap_append(s, todo) == s \o <<todo>>

\* the updater of create (line 65)
createMap(s, todo) == <<todo>> \o s

\* the updater of update (line 81)
updateMap(s, updated) ==
    [i \in 1..Len(s) |-> IF s[i].id = updated.id THEN updated ELSE s[i]]

\* the updater of remove (line 90)
removeFilter(s, id) == SelectSeq(s, LAMBDA t : t.id # id)

\* a variant that marks the task done instead of flipping the flag
toggleMap_setsTrue(s, id, t) ==
    [i \in 1..Len(s) |->
        IF s[i].id = id
        THEN [s[i] EXCEPT !.completed = TRUE, !.updatedAt = t]
        ELSE s[i]]

\* the updater of toggle (line 94)
toggleMap(s, id, t) ==
    [i \in 1..Len(s) |->
        IF s[i].id = id
        THEN [s[i] EXCEPT !.completed = ~s[i].completed, !.updatedAt = t]
        ELSE s[i]]

\* const q = search.trim().toLowerCase() (line 97)
q(srch) == toLowerCase(trim(srch))

\* a variant that compares the text without lower-casing it
shown_caseSensitive(t, srch, flt) ==
    IF flt = "todos" /\ t.completed THEN FALSE
    ELSE IF flt = "completed" /\ ~t.completed THEN FALSE
    ELSE IF q(srch) = <<>> THEN TRUE
    ELSE includes(t.title \o <<Space>> \o descriptionOf(t), q(srch))

\* the predicate of the useMemo filter (lines 100-105)
shown(t, srch, flt) ==
    IF flt = "todos" /\ t.completed THEN FALSE
    ELSE IF flt = "completed" /\ ~t.completed THEN FALSE
    ELSE IF q(srch) = <<>> THEN TRUE
    ELSE includes(toLowerCase(t.title \o <<Space>> \o descriptionOf(t)), q(srch))

\* filtered (lines 98-107)
filteredOf(s, srch, flt) == SelectSeq(s, LAMBDA t : shown(t, srch, flt))

filtered == filteredOf(todos, search, filter)

Op(name, id, confirmed) == [name |-> name, id |-> id, confirmed |-> confirmed]

-----------------------------------------------------------------------------
(* Construction and the mount effects *)

\* the useState initial values (lines 16-22); the effects have yet to run
Init ==
    /\ todos = <<>>
    /\ search = <<>>
    /\ filter = "todos"
    /\ editing = Null
    /\ title = <<>>
    /\ description = <<>>
    /\ modalOpen = FALSE
    /\ storage \in InitialStorage
    /\ now = StoredAt + 1
    /\ pc = "mountLoad"
    /\ pending = Null
    /\ lastOp = Op("init", <<>>, FALSE)
    /\ restartFrom = Null
    /\ loadedRaw = Null
    /\ events = 0

\* a variant in which the persist effect is declared, and so runs, before the
\* load effect: the slot read is the one the mount's persist has written
LoadEffect_afterPersist ==
    /\ pc = "mountLoad"
    /\ LET raw == getItem(persist(storage, todos))
       IN  pending' =
             IF raw # Null /\ raw[1] # <<>> /\ JSONparse(raw[1]).ok
             THEN Some([isArray |-> JSONparse(raw[1]).isArray,
                        items |-> JSONparse(raw[1]).items])
             ELSE Null
    /\ pc' = "mountPersist"
    /\ lastOp' = [name |-> "load", id |-> <<>>, confirmed |-> FALSE]
    /\ loadedRaw' = Some(getItem(storage))
    /\ UNCHANGED <<events, todos, search, filter, editing, title, description,
                   modalOpen, storage, now, restartFrom>>

\* the load effect (lines 25-30): a truthy raw is parsed and queued with
\* setTodos; a SyntaxError is caught and dropped
LoadEffect ==
    /\ pc = "mountLoad"
    /\ LET raw == getItem(storage)
       IN  pending' =
             IF raw # Null /\ raw[1] # <<>> /\ JSONparse(raw[1]).ok
             THEN Some([isArray |-> JSONparse(raw[1]).isArray,
                        items |-> JSONparse(raw[1]).items])
             ELSE Null
    /\ pc' = "mountPersist"
    /\ lastOp' = Op("load", <<>>, FALSE)
    /\ loadedRaw' = Some(getItem(storage))
    /\ UNCHANGED <<events, todos, search, filter, editing, title, description,
                   modalOpen, storage, now, restartFrom>>

\* the persist effect of the mount commit (lines 33-37): it runs after the
\* load effect and before the queued update is rendered, with todos = []
PersistEffect ==
    /\ pc = "mountPersist"
    /\ storage' = persist(storage, todos)
    /\ pc' = IF pending # Null THEN "render" ELSE "idle"
    /\ lastOp' = Op("persist", <<>>, FALSE)
    /\ UNCHANGED <<events, todos, search, filter, editing, title, description,
                   modalOpen, now, pending, restartFrom, loadedRaw>>

\* the render of the queued setTodos(JSON.parse(raw)) and the persist effect
\* after it; a value that is no array makes todos.filter (line 100) throw
\* during render, and the component is gone
Rerender ==
    /\ pc = "render"
    /\ IF pending[1].isArray
       THEN /\ todos' = pending[1].items
            /\ storage' = persist(storage, pending[1].items)
            /\ pc' = "idle"
       ELSE /\ pc' = "crashed"
            /\ UNCHANGED <<todos, storage>>
    /\ pending' = Null
    /\ lastOp' = Op("render", <<>>, FALSE)
    /\ UNCHANGED <<events, search, filter, editing, title, description,
                   modalOpen, now, restartFrom, loadedRaw>>

\* one more user event, within the bound on the length of a run
Event ==
    /\ events < MaxEvents
    /\ events' = events + 1

\* the page is reloaded: a fresh component over the same storage slot
Restart ==
    /\ pc \in {"idle", "crashed"}
    /\ Event
    /\ todos' = <<>>
    /\ search' = <<>>
    /\ filter' = "todos"
    /\ editing' = Null
    /\ title' = <<>>
    /\ description' = <<>>
    /\ modalOpen' = FALSE
    /\ pending' = Null
    /\ pc' = "mountLoad"
    /\ restartFrom' = IF pc = "idle" THEN Some(todos) ELSE Null
    /\ loadedRaw' = Null
    /\ lastOp' = Op("restart", <<>>, FALSE)
    /\ UNCHANGED <<storage, now>>

\* a millisecond passes
Tick ==
    /\ now < StoredAt + 1 + MaxTicks
    /\ now' = now + 1
    /\ lastOp' = Op("tick", <<>>, FALSE)
    /\ UNCHANGED <<events, todos, search, filter, editing, title, description,
                   modalOpen, storage, pc, pending, restartFrom, loadedRaw>>

-----------------------------------------------------------------------------
(* The event handlers.  Each runs when the component is idle; a handler     *)
(* that calls setTodos is followed by the render and the persist effect.    *)
(* The table and its row buttons (lines 165-227) are rendered whether or    *)
(* not the modal is open, and nothing disables them or traps the focus, so  *)
(* their handlers can run while the modal is open.                          *)

\* setTodos(updater), the render, and the persist effect (lines 33-37)
Commit(s) ==
    /\ todos' = s
    /\ storage' = persist(storage, s)

\* onChange of the search box (line 141)
SetSearch(v) ==
    /\ pc = "idle"
    /\ Event
    /\ search' = v
    /\ lastOp' = Op("setSearch", <<>>, FALSE)
    /\ restartFrom' = Null
    /\ loadedRaw' = Null
    /\ UNCHANGED <<todos, filter, editing, title, description, modalOpen,
                   storage, now, pc, pending>>

\* onClick of the two tabs (lines 152, 158)
SetFilter(f) ==
    /\ pc = "idle"
    /\ Event
    /\ filter' = f
    /\ lastOp' = Op("setFilter", <<>>, FALSE)
    /\ restartFrom' = Null
    /\ loadedRaw' = Null
    /\ UNCHANGED <<todos, search, editing, title, description, modalOpen,
                   storage, now, pc, pending>>

\* openAdd (lines 39-44)
OpenAdd ==
    /\ pc = "idle"
    /\ Event
    /\ editing' = Null
    /\ title' = <<>>
    /\ description' = <<>>
    /\ modalOpen' = TRUE
    /\ lastOp' = Op("openAdd", <<>>, FALSE)
    /\ restartFrom' = Null
    /\ loadedRaw' = Null
    /\ UNCHANGED <<todos, search, filter, storage, now, pc, pending>>

\* openEdit(t) (lines 46-51), t the task of a displayed row (line 187)
OpenEdit(t) ==
    /\ pc = "idle"
    /\ Event
    /\ editing' = Some(t)
    /\ title' = t.title
    /\ description' = descriptionOf(t)
    /\ modalOpen' = TRUE
    /\ lastOp' = Op("openEdit", t.id, FALSE)
    /\ restartFrom' = Null
    /\ loadedRaw' = Null
    /\ UNCHANGED <<todos, search, filter, storage, now, pc, pending>>

\* onChange of the modal's title input (line 250)
SetTitle(v) ==
    /\ pc = "idle"
    /\ Event
    /\ modalOpen
    /\ title' = v
    /\ lastOp' = Op("setTitle", <<>>, FALSE)
    /\ restartFrom' = Null
    /\ loadedRaw' = Null
    /\ UNCHANGED <<todos, search, filter, editing, description, modalOpen,
                   storage, now, pc, pending>>

\* onChange of the modal's description textarea (line 259)
SetDescription(v) ==
    /\ pc = "idle"
    /\ Event
    /\ modalOpen
    /\ description' = v
    /\ lastOp' = Op("setDescription", <<>>, FALSE)
    /\ restartFrom' = Null
    /\ loadedRaw' = Null
    /\ UNCHANGED <<todos, search, filter, editing, title, modalOpen,
                   storage, now, pc, pending>>

\* a variant that closes the modal and forgets to clear editing
Backdrop_keepsEditing ==
    /\ pc = "idle"
    /\ Event
    /\ modalOpen
    /\ modalOpen' = FALSE
    /\ lastOp' = Op("backdrop", <<>>, FALSE)
    /\ restartFrom' = Null
    /\ loadedRaw' = Null
    /\ UNCHANGED <<todos, search, filter, editing, title, description, storage,
                   now, pc, pending>>

\* onClick of the backdrop (lines 233-236): the form fields are kept
Backdrop ==
    /\ pc = "idle"
    /\ Event
    /\ modalOpen
    /\ modalOpen' = FALSE
    /\ editing' = Null
    /\ lastOp' = Op("backdrop", <<>>, FALSE)
    /\ restartFrom' = Null
    /\ loadedRaw' = Null
    /\ UNCHANGED <<todos, search, filter, title, description, storage, now,
                   pc, pending>>

\* onClick of Cancel (lines 266-271)
Cancel ==
    /\ pc = "idle"
    /\ Event
    /\ modalOpen
    /\ modalOpen' = FALSE
    /\ editing' = Null
    /\ title' = <<>>
    /\ description' = <<>>
    /\ lastOp' = Op("cancel", <<>>, FALSE)
    /\ restartFrom' = Null
    /\ loadedRaw' = Null
    /\ UNCHANGED <<todos, search, filter, storage, now, pc, pending>>

\* create (lines 53-69), the submit button's handler while editing is null
\* (line 277)
Create ==
    /\ pc = "idle"
    /\ Event
    /\ modalOpen
    /\ editing = Null
    /\ IF trim(title) = <<>>
       THEN UNCHANGED <<todos, storage, modalOpen, title, description>>
       ELSE /\ Commit(createMap(todos, newTodo(title, description, now)))
            /\ modalOpen' = FALSE
            /\ title' = <<>>
            /\ description' = <<>>
    /\ lastOp' = Op("create", <<>>, FALSE)
    /\ restartFrom' = Null
    /\ loadedRaw' = Null
    /\ UNCHANGED <<search, filter, editing, now, pc, pending>>

\* update (lines 71-86), the submit button's handler while editing is set
\* (line 277)
Update ==
    /\ pc = "idle"
    /\ Event
    /\ modalOpen
    /\ editing # Null
    /\ IF trim(title) = <<>>
       THEN UNCHANGED <<todos, storage, editing, modalOpen, title, description>>
       ELSE /\ Commit(updateMap(todos,
                                updatedTodo(editing[1], title, description, now)))
            /\ editing' = Null
            /\ modalOpen' = FALSE
            /\ title' = <<>>
            /\ description' = <<>>
    /\ lastOp' = Op("update", editing[1].id, FALSE)
    /\ restartFrom' = Null
    /\ loadedRaw' = Null
    /\ UNCHANGED <<search, filter, now, pc, pending>>

\* remove(t.id) (lines 88-91) from a displayed row (line 201); confirmed is
\* the answer to confirm('Delete this todo?')
Remove(t, confirmed) ==
    /\ pc = "idle"
    /\ Event
    /\ IF confirmed
       THEN Commit(removeFilter(todos, t.id))
       ELSE UNCHANGED <<todos, storage>>
    /\ lastOp' = Op("remove", t.id, confirmed)
    /\ restartFrom' = Null
    /\ loadedRaw' = Null
    /\ UNCHANGED <<search, filter, editing, title, description, modalOpen,
                   now, pc, pending>>

\* toggle(t.id) (lines 93-95) from a displayed row (line 212)
Toggle(t) ==
    /\ pc = "idle"
    /\ Event
    /\ Commit(toggleMap(todos, t.id, now))
    /\ lastOp' = Op("toggle", t.id, FALSE)
    /\ restartFrom' = Null
    /\ loadedRaw' = Null
    /\ UNCHANGED <<search, filter, editing, title, description, modalOpen,
                   now, pc, pending>>

\* the rows on screen (line 177): the tasks whose buttons can be pressed
Rows == {filtered[j] : j \in 1..Len(filtered)}

Next ==
    \/ LoadEffect
    \/ PersistEffect
    \/ Rerender
    \/ Restart
    \/ Tick
    \/ \E v \in SearchInputs : SetSearch(v)
    \/ \E f \in Filters : SetFilter(f)
    \/ OpenAdd
    \/ \E t \in Rows : OpenEdit(t)
    \/ \E v \in TitleInputs : SetTitle(v)
    \/ \E v \in DescriptionInputs : SetDescription(v)
    \/ Backdrop
    \/ Cancel
    \/ Create
    \/ Update
    \/ \E t \in Rows, confirmed \in BOOLEAN : Remove(t, confirmed)
    \/ \E t \in Rows : Toggle(t)

Spec == Init /\ [][Next]_vars

-----------------------------------------------------------------------------
(* The view-model on its own: every collection of up to MaxViewLen tasks,   *)
(* every search text and both tabs                                          *)

ViewShapes ==
    [title : {<<"a">>, <<"B">>}, description : {Null, Some(<<"b">>)},
     completed : BOOLEAN]

\* the task of shape sh at position i, newest first
viewTodo(sh, i) ==
    LET t == StoredAt - i
        base == [id |-> String(t), title |-> sh.title,
                 completed |-> sh.completed, createdAt |-> t, updatedAt |-> t]
    IN  IF sh.description = Null THEN base
        ELSE ("description" :> sh.description[1]) @@ base

ViewCollections ==
    UNION { { [i \in 1..n |-> viewTodo(f[i], i)] : f \in [1..n -> ViewShapes] } :
            n \in 0..MaxViewLen }

\* the idle component after the mount over a slot holding the collection
InitView ==
    /\ todos \in ViewCollections
    /\ search = <<>>
    /\ filter = "todos"
    /\ editing = Null
    /\ title = <<>>
    /\ description = <<>>
    /\ modalOpen = FALSE
    /\ storage = persist(Null, todos)
    /\ now = StoredAt + 1
    /\ pc = "idle"
    /\ pending = Null
    /\ lastOp = Op("init", <<>>, FALSE)
    /\ restartFrom = Null
    /\ loadedRaw = Null
    /\ events = 0

NextView ==
    \/ \E v \in ViewSearchInputs : SetSearch(v)
    \/ \E f \in Filters : SetFilter(f)

SpecView == InitView /\ [][NextView]_vars

-----------------------------------------------------------------------------
(* Properties *)

\* the form title is empty or holds only whitespace
IsBlank(s) == \A i \in 1..Len(s) : s[i] = Space

\* the positions of the collection s that hold the id
Matching(s, id) == {i \in 1..Len(s) : s[i].id = id}

\* s with position k taken out
Without(s, k) == SubSeq(s, 1, k - 1) \o SubSeq(s, k + 1, Len(s))

\* C1: in every reachable state no two tasks of the collection have the
\* same id.
C1_UniqueIds ==
    \A i, j \in 1..Len(todos) : i # j => todos[i].id # todos[j].id

\* C2: a successful update of a task that is in the collection leaves the
\* task's id, createdAt and completed as they are in the collection just
\* before the submit and does not lower updatedAt, whatever happened between
\* openEdit and the submit.
C2_UpdatePreserves ==
    [][ (lastOp'.name = "update" /\ ~IsBlank(title)) =>
          /\ Len(todos') = Len(todos)
          /\ \A i \in Matching(todos, lastOp'.id) :
                /\ todos'[i].id = todos[i].id
                /\ todos'[i].createdAt = todos[i].createdAt
                /\ todos'[i].completed = todos[i].completed
                /\ todos'[i].updatedAt >= todos[i].updatedAt ]_vars

\* C3: once the mount after a reload has finished, the collection is the one
\* held just before the reload, and the storage slot holds that collection.
C3_RoundTrip ==
    (pc = "idle" /\ restartFrom # Null) =>
        /\ todos = restartFrom[1]
        /\ storage = Some(JSONstringify(restartFrom[1]))
        /\ JSONparse(storage[1]).items = restartFrom[1]

\* a reload of a collection holding a task created in this session and a
\* completed one has finished
C3_Witness ==
    /\ pc = "idle"
    /\ restartFrom # Null
    /\ lastOp.name = "render"
    /\ \E i \in 1..Len(restartFrom[1]) : restartFrom[1][i].createdAt > StoredAt
    /\ \E i \in 1..Len(restartFrom[1]) : restartFrom[1][i].completed

\* C4: a confirmed remove takes out exactly one entry, the one with the id,
\* and leaves the others and their order as they were; a declined remove
\* leaves the collection unchanged.
C4_RemoveExactlyOne ==
    [][ lastOp'.name = "remove" =>
          IF lastOp'.confirmed
          THEN \E k \in Matching(todos, lastOp'.id) : todos' = Without(todos, k)
          ELSE todos' = todos ]_vars

\* C5: create with a title that is not blank puts one new task in front of
\* the unchanged old collection: not completed, the trimmed title, and
\* createdAt = updatedAt = the clock reading its id is the string of.
C5_CreatePrepends ==
    [][ (lastOp'.name = "create" /\ ~IsBlank(title)) =>
          /\ Len(todos') = Len(todos) + 1
          /\ Tail(todos') = todos
          /\ Head(todos').completed = FALSE
          /\ Head(todos').title = trimEnd(trimStart(title))
          /\ ~IsBlank(Head(todos').title)
          /\ Head(todos').createdAt = now
          /\ Head(todos').updatedAt = now
          /\ Head(todos').id = String(now) ]_vars

\* a create has put a task in front of a collection that was not empty
C5_Witness ==
    /\ lastOp.name = "create"
    /\ ~modalOpen
    /\ Len(todos) >= 2
    /\ todos[1].createdAt > todos[2].createdAt

\* C6: a submit (create or update) with a blank title changes nothing: the
\* collection, the open modal, the editing reference and both form fields
\* stay as they are.
C6_BlankSubmitNoOp ==
    [][ (lastOp'.name \in {"create", "update"} /\ IsBlank(title)) =>
          /\ modalOpen /\ modalOpen'
          /\ UNCHANGED <<todos, storage, editing, title, description>> ]_vars

\* a blank title has been submitted in edit mode, the description typed
C6_Witness ==
    /\ lastOp.name = "update"
    /\ modalOpen
    /\ editing # Null
    /\ title = <<Space>>
    /\ description # <<>>

\* C7: toggle flips completed on the entries with the id and sets their
\* updatedAt to the clock reading, which is no earlier than the previous
\* updatedAt; their other fields, every other entry, and the order are
\* unchanged; a second application gives completed its first value again.
C7_Toggle ==
    [][ lastOp'.name = "toggle" =>
          /\ Len(todos') = Len(todos)
          /\ Matching(todos, lastOp'.id) # {}
          /\ \A i \in 1..Len(todos) :
                IF todos[i].id = lastOp'.id
                THEN /\ todos'[i].completed = ~todos[i].completed
                     /\ todos'[i].updatedAt = now
                     /\ todos'[i].updatedAt >= todos[i].updatedAt
                     /\ DOMAIN todos'[i] = DOMAIN todos[i]
                     /\ \A k \in DOMAIN todos[i] \ {"completed", "updatedAt"} :
                           todos'[i][k] = todos[i][k]
                     /\ toggleMap(todos', lastOp'.id, now)[i].completed
                           = todos[i].completed
                ELSE todos'[i] = todos[i] ]_vars

\* a task first completed and then toggled back at a later clock reading
C7_Witness ==
    /\ lastOp.name = "toggle"
    /\ \E i \in 1..Len(todos) :
          /\ todos[i].id = lastOp.id
          /\ ~todos[i].completed
          /\ todos[i].updatedAt > todos[i].createdAt + 1

\* the status part of the view-model's predicate
StatusMatches(t, flt) ==
    \/ flt = "todos" /\ ~t.completed
    \/ flt = "completed" /\ t.completed

\* the text searched: lower-cased title, a space, description
SearchedText(t) == toLowerCase(t.title \o <<Space>> \o descriptionOf(t))

\* C8 as stated: the displayed list is the subsequence of the tasks whose
\* status matches the tab and for which the search text is empty or, lower-
\* cased, a substring of the searched text.
C8_ViewAsStated ==
    filtered = SelectSeq(todos, LAMBDA t :
                  /\ StatusMatches(t, filter)
                  /\ \/ search = <<>>
                     \/ includes(SearchedText(t), toLowerCase(search)))

\* C8, amended: the same with the search text trimmed first; and with an
\* empty search every task is shown under exactly one of the two tabs.
C8_View ==
    /\ filtered = SelectSeq(todos, LAMBDA t :
                     /\ StatusMatches(t, filter)
                     /\ \/ trimEnd(trimStart(search)) = <<>>
                        \/ includes(SearchedText(t),
                                    toLowerCase(trimEnd(trimStart(search)))))
    /\ \A i \in 1..Len(todos) :
          shown(todos[i], <<>>, "todos") # shown(todos[i], <<>>, "completed")
    /\ Len(filteredOf(todos, <<>>, "todos"))
         + Len(filteredOf(todos, <<>>, "completed")) = Len(todos)

\* a search with a leading space and an upper-case title: the list shows a
\* task the untrimmed text is no substring of
C8_Witness ==
    /\ search = <<Space, "b">>
    /\ filter = "completed"
    /\ Len(todos) = 2
    /\ Len(filtered) = 1
    /\ filtered[1].title = <<"B">>
    /\ "description" \notin DOMAIN filtered[1]

\* the slot read at mount holds an array written by JSON.stringify
WellFormed(raw) ==
    /\ raw # Null
    /\ JSONparse(raw[1]).ok
    /\ JSONparse(raw[1]).isArray

\* C9: when the mount has finished, no error has been raised, and the
\* collection is the stored array if the slot held a well-formed one and
\* empty if the slot was absent or malformed.
C9_Startup ==
    (pc \in {"idle", "crashed"} /\ loadedRaw # Null) =>
        /\ pc = "idle"
        /\ todos = IF WellFormed(loadedRaw[1])
                   THEN JSONparse(loadedRaw[1][1]).items
                   ELSE <<>>

\* C10: the modal is never closed with editing set; it opens only by openAdd
\* or openEdit and closes only by cancel, a backdrop click or a submit with
\* a title that is not blank; openAdd leaves both fields empty and openEdit
\* leaves them equal to the selected task's title and description.  A reload
\* builds a new component and is no step of the modal.
C10_Modal ==
    [][ lastOp'.name # "restart" =>
          /\ ~(~modalOpen' /\ editing' # Null)
          /\ (~modalOpen /\ modalOpen') => lastOp'.name \in {"openAdd", "openEdit"}
          /\ (modalOpen /\ ~modalOpen') =>
                \/ lastOp'.name \in {"cancel", "backdrop"}
                \/ lastOp'.name \in {"create", "update"} /\ ~IsBlank(title)
          /\ lastOp'.name = "openAdd" =>
                /\ modalOpen' /\ editing' = Null
                /\ title' = <<>> /\ description' = <<>>
          /\ lastOp'.name = "openEdit" =>
                /\ modalOpen' /\ editing' # Null
                /\ \E i \in 1..Len(todos) : editing'[1] = todos[i]
                /\ editing'[1].id = lastOp'.id
                /\ title' = editing'[1].title
                /\ description' = (IF "description" \in DOMAIN editing'[1]
                                   THEN editing'[1].description ELSE <<>>) ]_vars

\* the editor was opened on a task over fields a closed modal had kept, and
\* a submit has closed it again
C10_Witness ==
    /\ lastOp.name = "update"
    /\ ~modalOpen
    /\ editing = Null
    /\ \E i \in 1..Len(todos) : todos[i].updatedAt > todos[i].createdAt

====
